---- MODULE Spec2Model ----
(***************************************************************************)
(* Cricklytics: the match outcome predictor (MatchPredictor component) and *)
(* the synthetic player statistics, recent form and form analysis of the   *)
(* PlayerDeepDive component.                                               *)
(*                                                                         *)
(* Conventions.  A JavaScript value that may be null is a sequence: <<>>   *)
(* is null and <<v>> is the value v.  A number with one decimal place is   *)
(* kept in tenths.  A player name is the sequence of its UTF-16 code       *)
(* units; team and venue names are strings, and Chars gives the characters *)
(* of those that String.prototype.includes inspects.                       *)
(***************************************************************************)
EXTENDS Integers, Sequences, FiniteSets

VARIABLES formData, prediction, loading, error, pc, req, playerName, recentForm,
          teamName, playerRole, playerAnalysisData,
          recentMatches, formRole, formOutcome, formAnalysis, realData

vars ==
  <<formData, prediction, loading, error, pc, req, playerName, recentForm,
    teamName, playerRole, playerAnalysisData,
    recentMatches, formRole, formOutcome, formAnalysis, realData>>

predictorVars == <<formData, prediction, loading, error, pc, req, realData>>

playerVars == <<playerName, recentForm, teamName, playerRole, playerAnalysisData>>

formVars == <<recentMatches, formRole, formOutcome, formAnalysis>>

Null == <<>>

Some(v) == <<v>>

Max(a, b) == IF a >= b THEN a ELSE b

Min(a, b) == IF a <= b THEN a ELSE b

Abs(a) == IF a >= 0 THEN a ELSE 0 - a

\* Array.prototype.filter with the predicate impact > 0.
RECURSIVE FilterPositive(_)
FilterPositive(s) ==
  IF s = <<>> THEN <<>>
  ELSE IF Head(s).impact > 0 THEN <<Head(s)>> \o FilterPositive(Tail(s))
  ELSE FilterPositive(Tail(s))

(***************************************************************************)
(* Bounds.                                                                 *)
(***************************************************************************)
\* Math.random() returns k / RandDen for k in 0 .. RandDen-1.
RandDen == 40

\* One-character player names use the code units 0 .. MaxCharCode.
MaxCharCode == 29999

\* The match lists given to analyzeRecentForm have at most MaxMatches records.
MaxMatches == 6

\* The draws of one invocation move by 0 .. MaxStep from call to call.
MaxStep == 1

(***************************************************************************)
(* Strings.                                                                *)
(***************************************************************************)
Chars(s) ==
  CASE
       s = "" -> <<>>
    [] s = "Lord's, London" -> <<"L", "o", "r", "d", "'", "s", ",", " ", "L", "o", "n", "d", "o", "n">>
    [] s = "MCG, Melbourne" -> <<"M", "C", "G", ",", " ", "M", "e", "l", "b", "o", "u", "r", "n", "e">>
    [] s = "Eden Gardens, Kolkata" -> <<"E", "d", "e", "n", " ", "G", "a", "r", "d", "e", "n", "s", ",", " ", "K", "o", "l", "k", "a", "t", "a">>
    [] s = "Wankhede Stadium, Mumbai" -> <<"W", "a", "n", "k", "h", "e", "d", "e", " ", "S", "t", "a", "d", "i", "u", "m", ",", " ", "M", "u", "m", "b", "a", "i">>
    [] s = "The Oval, London" -> <<"T", "h", "e", " ", "O", "v", "a", "l", ",", " ", "L", "o", "n", "d", "o", "n">>
    [] s = "Gaddafi Stadium, Lahore" -> <<"G", "a", "d", "d", "a", "f", "i", " ", "S", "t", "a", "d", "i", "u", "m", ",", " ", "L", "a", "h", "o", "r", "e">>
    [] s = "Newlands, Cape Town" -> <<"N", "e", "w", "l", "a", "n", "d", "s", ",", " ", "C", "a", "p", "e", " ", "T", "o", "w", "n">>
    [] s = "Basin Reserve, Wellington" -> <<"B", "a", "s", "i", "n", " ", "R", "e", "s", "e", "r", "v", "e", ",", " ", "W", "e", "l", "l", "i", "n", "g", "t", "o", "n">>
    [] s = "Kensington Oval, Barbados" -> <<"K", "e", "n", "s", "i", "n", "g", "t", "o", "n", " ", "O", "v", "a", "l", ",", " ", "B", "a", "r", "b", "a", "d", "o", "s">>
    [] s = "R. Premadasa Stadium, Colombo" -> <<"R", ".", " ", "P", "r", "e", "m", "a", "d", "a", "s", "a", " ", "S", "t", "a", "d", "i", "u", "m", ",", " ", "C", "o", "l", "o", "m", "b", "o">>
    [] s = "Home Ground, India" -> <<"H", "o", "m", "e", " ", "G", "r", "o", "u", "n", "d", ",", " ", "I", "n", "d", "i", "a">>
    [] s = "Home Ground, Australia" -> <<"H", "o", "m", "e", " ", "G", "r", "o", "u", "n", "d", ",", " ", "A", "u", "s", "t", "r", "a", "l", "i", "a">>
    [] s = "Home Ground, England" -> <<"H", "o", "m", "e", " ", "G", "r", "o", "u", "n", "d", ",", " ", "E", "n", "g", "l", "a", "n", "d">>
    [] s = "Home Ground, Pakistan" -> <<"H", "o", "m", "e", " ", "G", "r", "o", "u", "n", "d", ",", " ", "P", "a", "k", "i", "s", "t", "a", "n">>
    [] s = "India" -> <<"I", "n", "d", "i", "a">>
    [] s = "Australia" -> <<"A", "u", "s", "t", "r", "a", "l", "i", "a">>
    [] s = "England" -> <<"E", "n", "g", "l", "a", "n", "d">>
    [] s = "South Africa" -> <<"S", "o", "u", "t", "h", " ", "A", "f", "r", "i", "c", "a">>
    [] s = "New Zealand" -> <<"N", "e", "w", " ", "Z", "e", "a", "l", "a", "n", "d">>
    [] s = "Pakistan" -> <<"P", "a", "k", "i", "s", "t", "a", "n">>
    [] s = "West Indies" -> <<"W", "e", "s", "t", " ", "I", "n", "d", "i", "e", "s">>
    [] s = "Sri Lanka" -> <<"S", "r", "i", " ", "L", "a", "n", "k", "a">>
    [] s = "Bangladesh" -> <<"B", "a", "n", "g", "l", "a", "d", "e", "s", "h">>
    [] s = "Afghanistan" -> <<"A", "f", "g", "h", "a", "n", "i", "s", "t", "a", "n">>
    [] s = "Ireland" -> <<"I", "r", "e", "l", "a", "n", "d">>
    [] s = "Netherlands" -> <<"N", "e", "t", "h", "e", "r", "l", "a", "n", "d", "s">>

\* needle occurs in text at some offset.
OccursIn(t, n) ==
  \E off \in 0 .. (Len(t) - Len(n)) : \A j \in 1 .. Len(n) : t[off + j] = n[j]

\* String.prototype.toUpperCase on the match type values of the form.
ToUpperCase(s) ==
  CASE s = "t20" -> "T20"
    [] s = "odi" -> "ODI"
    [] s = "test" -> "TEST"

(***************************************************************************)
(* MatchPredictor: catalogs.                                               *)
(***************************************************************************)
availableTeams ==
  << [name |-> "India", ranking |-> 1, code |-> "IND"],
     [name |-> "Australia", ranking |-> 2, code |-> "AUS"],
     [name |-> "England", ranking |-> 3, code |-> "ENG"],
     [name |-> "South Africa", ranking |-> 4, code |-> "SA"],
     [name |-> "New Zealand", ranking |-> 5, code |-> "NZ"],
     [name |-> "Pakistan", ranking |-> 6, code |-> "PAK"],
     [name |-> "West Indies", ranking |-> 7, code |-> "WI"],
     [name |-> "Sri Lanka", ranking |-> 8, code |-> "SL"],
     [name |-> "Bangladesh", ranking |-> 9, code |-> "BAN"],
     [name |-> "Afghanistan", ranking |-> 10, code |-> "AFG"],
     [name |-> "Ireland", ranking |-> 11, code |-> "IRE"],
     [name |-> "Netherlands", ranking |-> 12, code |-> "NED"] >>

\* Array.prototype.sort by ascending ranking (insertion sort, stable).
RECURSIVE InsertByRanking(_, _)
InsertByRanking(t, s) ==
  IF s = <<>> THEN <<t>>
  ELSE IF t.ranking - Head(s).ranking < 0 THEN <<t>> \o s
  ELSE <<Head(s)>> \o InsertByRanking(t, Tail(s))

RECURSIVE SortByRanking(_)
SortByRanking(s) ==
  IF s = <<>> THEN <<>>
  ELSE InsertByRanking(s[Len(s)], SortByRanking(SubSeq(s, 1, Len(s) - 1)))

sortedTeams == SortByRanking(availableTeams)

internationalTeams == sortedTeams

availableVenues ==
  << "Lord's, London", "MCG, Melbourne", "Eden Gardens, Kolkata",
     "Wankhede Stadium, Mumbai", "The Oval, London", "Gaddafi Stadium, Lahore",
     "Newlands, Cape Town", "Basin Reserve, Wellington",
     "Kensington Oval, Barbados", "R. Premadasa Stadium, Colombo" >>

TeamNames == { availableTeams[i].name : i \in 1 .. Len(availableTeams) }

\* Venue names outside the catalog that handleInputChange is also given.
OtherVenues ==
  { "Home Ground, India", "Home Ground, Australia", "Home Ground, England",
    "Home Ground, Pakistan" }

\* The values each form field takes.
TeamInputs == TeamNames \cup {""}

\* No catalog venue contains a team name: two of them stand for the catalog.
VenueInputs == { availableVenues[1], availableVenues[3] } \cup OtherVenues \cup {""}

TossDecisionInputs == {"bat", "bowl"}

MatchTypeInputs == {"t20", "odi", "test"}

\* The toss winner select offers the two selected teams.
TossWinnerInputs(fd) == {"", fd.teamA, fd.teamB}

Draws == 0 .. (RandDen - 1)

\* The least, the middle and the greatest draw.
ExtremeDraws == {0, RandDen \div 2, RandDen - 1}

\* String.prototype.includes, tabulated once for the venue and team names.
includesTable ==
  [ text \in VenueInputs \cup { availableVenues[i] : i \in 1 .. Len(availableVenues) } |->
      [ needle \in TeamNames |-> OccursIn(Chars(text), Chars(needle)) ] ]

Includes(text, needle) == includesTable[text][needle]

\* Array.prototype.find by name over internationalTeams: the first match, or
\* null; tabulated once for the names the form can hold.
findTable ==
  [ name \in TeamInputs |->
      IF \E i \in 1 .. Len(internationalTeams) : internationalTeams[i].name = name
      THEN LET i == CHOOSE i \in 1 .. Len(internationalTeams) :
                      /\ internationalTeams[i].name = name
                      /\ \A j \in 1 .. (i - 1) : internationalTeams[j].name # name
           IN Some(internationalTeams[i])
      ELSE Null ]

FindTeam(name) == findTable[name]

(***************************************************************************)
(* MatchPredictor: the prediction computed by handlePredict.               *)
(***************************************************************************)
\* Mutant: the difference taken the other way round.
rankingDiff_Swapped(teamA, teamB) == teamA.ranking - teamB.ranking

rankingDiff(teamA, teamB) == teamB.ranking - teamA.ranking

baseProbA(teamA, teamB) == 50 + (rankingDiff(teamA, teamB) * 3)

\* Mutant: the clamp to [20, 80] is missing.
probA_Unclamped(teamA, teamB) == baseProbA(teamA, teamB)

probA(teamA, teamB) == Max(20, Min(80, baseProbA(teamA, teamB)))

probB(teamA, teamB) == 100 - probA(teamA, teamB)

winner(teamA, teamB) ==
  IF probA(teamA, teamB) > probB(teamA, teamB) THEN teamA.name ELSE teamB.name

\* Mutant: team A's probability is reported whoever wins.
winnerProbability_AlwaysA(teamA, teamB) == probA(teamA, teamB)

winnerProbability(teamA, teamB) ==
  IF probA(teamA, teamB) > probB(teamA, teamB)
  THEN probA(teamA, teamB) ELSE probB(teamA, teamB)

loser(teamA, teamB) ==
  IF probA(teamA, teamB) > probB(teamA, teamB) THEN teamB.name ELSE teamA.name

loserProbability(teamA, teamB) ==
  IF probA(teamA, teamB) > probB(teamA, teamB)
  THEN probB(teamA, teamB) ELSE probA(teamA, teamB)

\* Mutant: the random term spans 25 instead of 20.
confidence_WideRange(k) == ((2 * (75 * RandDen + 25 * k)) + RandDen) \div (2 * RandDen)

\* Math.round(75 + Math.random() * 20) with Math.random() = k / RandDen;
\* Math.round rounds halves up.
confidence(k) == ((2 * (75 * RandDen + 20 * k)) + RandDen) \div (2 * RandDen)

teamRankingImpact(teamA, teamB) == Abs(rankingDiff(teamA, teamB)) * 5

tossAdvantageImpact(fd, w) == IF fd.tossWinner = w THEN 15 ELSE 0

homeAdvantageImpact(fd, w) ==
  IF \/ (Includes(fd.venue, "India") /\ w = "India")
     \/ (Includes(fd.venue, "Australia") /\ w = "Australia")
     \/ (Includes(fd.venue, "England") /\ w = "England")
  THEN 10 ELSE 0

formatExperienceImpact == 20

allFactors(fd, teamA, teamB) ==
  << [name |-> "Team Ranking", impact |-> teamRankingImpact(teamA, teamB)],
     [name |-> "Toss Advantage",
      impact |-> tossAdvantageImpact(fd, winner(teamA, teamB))],
     [name |-> "Home Advantage",
      impact |-> homeAdvantageImpact(fd, winner(teamA, teamB))],
     [name |-> "Format Experience", impact |-> formatExperienceImpact] >>

\* Mutant: zero-impact factors are kept.
factors_Unfiltered(fd, teamA, teamB) == allFactors(fd, teamA, teamB)

factors(fd, teamA, teamB) == FilterPositive(allFactors(fd, teamA, teamB))

matchDetails(fd) ==
  [ venue |-> fd.venue,
    format |-> ToUpperCase(fd.matchType),
    tossWinner |-> fd.tossWinner,
    tossDecision |-> fd.tossDecision ]

\* Mutant: the toss winner's probability is raised by the toss advantage.
makePrediction_TossBoost(fd, teamA, teamB, k) ==
  [ winner |-> winner(teamA, teamB),
    probability |-> winnerProbability(teamA, teamB)
                      + tossAdvantageImpact(fd, winner(teamA, teamB)),
    loser |-> loser(teamA, teamB),
    loserProbability |-> loserProbability(teamA, teamB)
                           - tossAdvantageImpact(fd, winner(teamA, teamB)),
    confidence |-> confidence(k),
    model_version |-> "v2.1",
    factors |-> factors(fd, teamA, teamB),
    matchDetails |-> matchDetails(fd) ]

\* The prediction object; prediction_time (the wall clock) is left out.
makePrediction(fd, teamA, teamB, k) ==
  [ winner |-> winner(teamA, teamB),
    probability |-> winnerProbability(teamA, teamB),
    loser |-> loser(teamA, teamB),
    loserProbability |-> loserProbability(teamA, teamB),
    confidence |-> confidence(k),
    model_version |-> "v2.1",
    factors |-> factors(fd, teamA, teamB),
    matchDetails |-> matchDetails(fd) ]

(***************************************************************************)
(* MatchPredictor: state and handlers.                                     *)
(***************************************************************************)
initialFormData ==
  [ teamA |-> "", teamB |-> "", venue |-> "", tossWinner |-> "",
    tossDecision |-> "bat", matchType |-> "t20" ]

\* The real-data state of the backend revision of the component, as
\* constructed: nothing loaded yet.
initialRealData ==
  [ teams |-> <<>>, venues |-> <<>>, loading |-> TRUE, error |-> Null ]

\* The component as constructed.
InitPredictor ==
  /\ formData = initialFormData
  /\ prediction = Null
  /\ loading = FALSE
  /\ error = Null
  /\ pc = "idle"
  /\ req = Null
  /\ realData = initialRealData

\* A form the user has filled in through handleInputChange, nothing submitted.
InitFilledForm ==
  /\ formData \in { fd \in [ teamA : TeamInputs, teamB : TeamInputs,
                             venue : VenueInputs, tossWinner : TeamInputs,
                             tossDecision : TossDecisionInputs,
                             matchType : MatchTypeInputs ] :
                      fd.tossWinner \in TossWinnerInputs(fd) }
  /\ prediction = Null
  /\ loading = FALSE
  /\ error = Null
  /\ pc = "idle"
  /\ req = Null
  /\ realData = initialRealData

\* handleInputChange(field, value): the form is updated; a displayed
\* prediction is cleared.
handleInputChange(field, value) ==
  /\ formData' = [formData EXCEPT ![field] = value]
  /\ prediction' = IF prediction # Null THEN Null ELSE prediction
  /\ UNCHANGED <<loading, error, pc, req, realData, playerVars, formVars>>

\* Mutant: the displayed prediction is cleared before the validation.
handlePredict_ClearFirst ==
  /\ pc = "idle"
  /\ loading = FALSE
  /\ IF formData.teamA = "" \/ formData.teamB = ""
     THEN /\ error' = Some("Please select both teams")
          /\ prediction' = Null
          /\ UNCHANGED <<formData, loading, pc, req>>
     ELSE IF formData.teamA = formData.teamB
     THEN /\ error' = Some("Please select different teams")
          /\ prediction' = Null
          /\ UNCHANGED <<formData, loading, pc, req>>
     ELSE /\ loading' = TRUE
          /\ error' = Null
          /\ prediction' = Null
          /\ pc' = "awaiting"
          /\ req' = Some(formData)
          /\ UNCHANGED formData
  /\ UNCHANGED <<realData, playerVars, formVars>>

\* handlePredict up to its await: validation, then the request starts.  The
\* handler keeps the formData of the render it was created in (req).  The
\* submit button is disabled while loading.
handlePredict ==
  /\ pc = "idle"
  /\ loading = FALSE
  /\ IF formData.teamA = "" \/ formData.teamB = ""
     THEN /\ error' = Some("Please select both teams")
          /\ UNCHANGED <<formData, prediction, loading, pc, req>>
     ELSE IF formData.teamA = formData.teamB
     THEN /\ error' = Some("Please select different teams")
          /\ UNCHANGED <<formData, prediction, loading, pc, req>>
     ELSE /\ loading' = TRUE
          /\ error' = Null
          /\ prediction' = Null
          /\ pc' = "awaiting"
          /\ req' = Some(formData)
          /\ UNCHANGED formData
  /\ UNCHANGED <<realData, playerVars, formVars>>

\* handlePredict after the simulated delay, Math.random() drawing k / RandDen.
handlePredictResume(k) ==
  /\ pc = "awaiting"
  /\ LET fd == req[1]
         teamA == FindTeam(fd.teamA)
         teamB == FindTeam(fd.teamB)
     IN IF teamA = Null \/ teamB = Null
        THEN /\ error' = Some("Invalid team selection")
             /\ UNCHANGED prediction
        ELSE /\ prediction' = Some(makePrediction(fd, teamA[1], teamB[1], k))
             /\ UNCHANGED error
  /\ loading' = FALSE
  /\ pc' = "idle"
  /\ req' = Null
  /\ UNCHANGED <<formData, realData, playerVars, formVars>>

(***************************************************************************)
(* PlayerDeepDive: generateFallbackMatches.                                *)
(***************************************************************************)
\* playerName.split('').reduce((hash, char) => hash + char.charCodeAt(0), 0)
\* Mutant: the first character is left out of the sum.
RECURSIVE nameHash_SkipFirst(_)
nameHash_SkipFirst(name) ==
  IF Len(name) <= 1 THEN 0
  ELSE nameHash_SkipFirst(SubSeq(name, 1, Len(name) - 1)) + name[Len(name)]

RECURSIVE nameHash(_)
nameHash(name) ==
  IF name = <<>> THEN 0 ELSE nameHash(SubSeq(name, 1, Len(name) - 1)) + name[Len(name)]

isAggressive(h) == (h % 3) = 0

isConsistent(h) == (h % 4) = 0

\* Mutant: isConsistent is tested before isAggressive.
baseSR_ConsistentFirst(h) == IF isConsistent(h) THEN 70 ELSE (IF isAggressive(h) THEN 85 ELSE 78)

baseSR(h) == IF isAggressive(h) THEN 85 ELSE (IF isConsistent(h) THEN 70 ELSE 78)

opponents ==
  << "Australia", "England", "India", "Pakistan", "South Africa", "New Zealand",
     "West Indies", "Sri Lanka", "Bangladesh", "Afghanistan", "Ireland",
     "Netherlands" >>

venues ==
  << "MCG Melbourne", "Lords London", "Eden Gardens Kolkata", "Wankhede Mumbai",
     "SCG Sydney", "The Oval London", "Gaddafi Stadium Lahore",
     "Newlands Cape Town", "Basin Reserve Wellington", "Kensington Oval Barbados" >>

formats == << "ODI", "T20I", "Test" >>

matchSeed(h, i) == (h + i * 1000) % 10000

consistentRuns(ms) == 25 + (ms % 40)

\* Mutant: the bust arm takes the seed modulo 110.
aggressiveRuns_Wide(ms) == IF (ms % 4) = 0 THEN 50 + (ms % 50) ELSE ms % 110

aggressiveRuns(ms) == IF (ms % 4) = 0 THEN 50 + (ms % 50) ELSE ms % 90

\* Mutant: the modulus is 80 instead of 70.
normalRuns_Wide(ms) == 10 + (ms % 80)

normalRuns(ms) == 10 + (ms % 70)

matchRuns(h, ms) ==
  IF isConsistent(h) THEN consistentRuns(ms)
  ELSE IF isAggressive(h) THEN aggressiveRuns(ms)
  ELSE normalRuns(ms)

\* Math.max(20, Math.floor(runs * (100/baseSR) + (matchSeed % 20) - 10)).
\* For runs in 0 .. 99 and the three base rates the double-precision value
\* has the floor of the exact quotient.
matchBalls(runs, sr, ms) ==
  Max(20, ((runs * 100) + (((ms % 20) - 10) * sr)) \div sr)

matchFours(runs, ms) == Max(0, (runs \div 25) + (ms % 6))

matchSixes(runs, ms) == Max(0, (runs \div 40) + (ms % 3))

\* Mutant: the strike rate is truncated to a tenth instead of rounded.
matchStrikeRate_Truncated(runs, balls) ==
  IF balls > 0 THEN (1000 * runs) \div balls ELSE 0

\* Number(((runs / balls) * 100).toFixed(1)), in tenths: the nearest tenth,
\* a half rounding up (as the double-precision value does for the runs and
\* balls the generator produces).
matchStrikeRate(runs, balls) ==
  IF balls > 0 THEN ((2000 * runs) + balls) \div (2 * balls) ELSE 0

\* Mutant: a seed divisible by 5 is tied whatever its remainder by 3.
matchResult_TiedFirst(ms) ==
  IF (ms % 5) = 0 THEN "Tied" ELSE (IF (ms % 3) # 0 THEN "Won" ELSE "Lost")

matchResult(ms) ==
  IF (ms % 3) # 0 THEN "Won" ELSE (IF (ms % 5) # 0 THEN "Lost" ELSE "Tied")

matchMilestone(runs) ==
  IF runs >= 100 THEN Some("Century")
  ELSE IF runs >= 50 THEN Some("Fifty") ELSE Null

\* The record pushed in iteration i.  The match date is Date.now() minus
\* daysAgo days; date and dateFormatted are its two renderings.
matchRecord(h, i) ==
  LET ms == matchSeed(h, i)
      runs == matchRuns(h, ms)
      balls == matchBalls(runs, baseSR(h), ms)
  IN [ matchNumber |-> 10 - i,
       opponent |-> opponents[(ms % Len(opponents)) + 1],
       venue |-> venues[(ms % Len(venues)) + 1],
       format |-> formats[(ms % Len(formats)) + 1],
       daysAgo |-> (i * 10) + (ms % 7),
       runs |-> runs,
       balls |-> balls,
       fours |-> matchFours(runs, ms),
       sixes |-> matchSixes(runs, ms),
       strikeRate |-> matchStrikeRate(runs, balls),
       result |-> matchResult(ms),
       notOut |-> (ms % 7) = 0,
       milestone |-> matchMilestone(runs) ]

\* The loop for (let i = 0; i < 10; i++) from iteration i on.
RECURSIVE matchesFrom(_, _)
matchesFrom(h, i) ==
  IF i < 10 THEN <<matchRecord(h, i)>> \o matchesFrom(h, i + 1) ELSE <<>>

generateFallbackMatches(name) == matchesFrom(nameHash(name), 0)

\* "Virat Kohli", "Rohit Sharma" and "Joe Root" of the player catalog, as
\* code units.
SampleNames ==
  { <<86, 105, 114, 97, 116, 32, 75, 111, 104, 108, 105>>,
    <<82, 111, 104, 105, 116, 32, 83, 104, 97, 114, 109, 97>>,
    <<74, 111, 101, 32, 82, 111, 111, 116>> }

NameInputs == { <<>> } \cup { <<c>> : c \in 0 .. MaxCharCode } \cup SampleNames

\* No form analysis has been asked for.
IdleForm ==
  /\ recentMatches = Null
  /\ formRole = "Batsman"
  /\ formOutcome = "pending"
  /\ formAnalysis = Null

\* No player has been selected.
IdlePlayer ==
  /\ playerName = <<>>
  /\ recentForm = Null
  /\ teamName = ""
  /\ playerRole = "Batsman"
  /\ playerAnalysisData = Null

InitPlayer ==
  /\ playerName \in NameInputs
  /\ recentForm = Null
  /\ teamName = ""
  /\ playerRole = "Batsman"
  /\ playerAnalysisData = Null

\* generateFallbackMatches(playerName) is called and its result kept.
GenerateFallbackMatches ==
  /\ recentForm = Null
  /\ recentForm' = Some(generateFallbackMatches(playerName))
  /\ UNCHANGED <<playerName, teamName, playerRole, playerAnalysisData, predictorVars, formVars>>

(***************************************************************************)
(* PlayerDeepDive: analyzeRecentForm.                                      *)
(*                                                                         *)
(* A match record always carries runs and strikeRate; economy and wickets  *)
(* are fields it may lack.  The averages keep the division by 5 as their   *)
(* unit: avgRuns is in fifths of a run, avgSR in fiftieths, avgEconomy in  *)
(* fiftieths; momentumScore is in thousandths.                             *)
(***************************************************************************)
\* Array.prototype.reduce((sum, x) => sum + x, 0) over a list of numbers.
RECURSIVE SumSeq(_)
SumSeq(s) == IF s = <<>> THEN 0 ELSE SumSeq(SubSeq(s, 1, Len(s) - 1)) + s[Len(s)]

\* recentMatches.slice(-5)
SliceLast5(s) == SubSeq(s, Max(1, Len(s) - 4), Len(s))

\* Mutant: a missing economy counts as 0.
economyOrDefault_Zero(m) == IF "economy" \in DOMAIN m THEN m.economy ELSE 0

\* m.economy || 6.0, in tenths: a missing and a zero economy are both falsy.
economyOrDefault(m) ==
  IF "economy" \in DOMAIN m /\ m.economy # 0 THEN m.economy ELSE 60

\* m.wickets || 0
wicketsOrDefault(m) == IF "wickets" \in DOMAIN m THEN m.wickets ELSE 0

runsOf(m) == m.runs

strikeRateOf(m) == m.strikeRate

\* last5.reduce(... m.economy || 6.0 ...) / 5, in fiftieths.
avgEconomy(last5) == SumSeq([ i \in DOMAIN last5 |-> economyOrDefault(last5[i]) ])

totalWickets(last5) == SumSeq([ i \in DOMAIN last5 |-> wicketsOrDefault(last5[i]) ])

\* last5.reduce(... m.runs ...) / 5, in fifths.
avgRuns(last5) == SumSeq([ i \in DOMAIN last5 |-> runsOf(last5[i]) ])

\* last5.reduce(... m.strikeRate ...) / 5, in fiftieths.
avgSR(last5) == SumSeq([ i \in DOMAIN last5 |-> strikeRateOf(last5[i]) ])

scores30Plus(last5) == Cardinality({ i \in 1 .. Len(last5) : last5[i].runs >= 30 })

\* avgEconomy < 6.5 && totalWickets >= 3 ? 'hot' : avgEconomy > 8.0 ? 'cold' : 'steady'
bowlingStreak(last5) ==
  IF avgEconomy(last5) < 325 /\ totalWickets(last5) >= 3 THEN "hot"
  ELSE IF avgEconomy(last5) > 400 THEN "cold" ELSE "steady"

\* avgRuns >= 35 && scores30Plus >= 3 ? 'hot' : avgRuns < 20 ? 'cold' : 'steady'
battingStreak(last5) ==
  IF avgRuns(last5) >= 175 /\ scores30Plus(last5) >= 3 THEN "hot"
  ELSE IF avgRuns(last5) < 100 THEN "cold" ELSE "steady"

\* Math.min(100, Math.max(20, 100 - (avgEconomy * 10) + (totalWickets * 5)))
bowlingMomentum(last5) ==
  Min(100000,
      Max(20000, (100000 - (200 * avgEconomy(last5))) + (5000 * totalWickets(last5))))

\* Math.min(100, Math.max(20, (avgRuns * 1.5) + (avgSR * 0.3)))
battingMomentum(last5) ==
  Min(100000, Max(20000, (300 * avgRuns(last5)) + (6 * avgSR(last5))))

\* x.toFixed(0) of x = n / 5 and x.toFixed(1) of x = n / 50 (in tenths).
FifthsToFixed(n) == ((2 * n) + 5) \div 10

\* The summary template's parts: the streak's text and the numbers it shows.
bowlingSummary(last5) ==
  CASE bowlingStreak(last5) = "hot" ->
         <<"Hot form", totalWickets(last5), FifthsToFixed(avgEconomy(last5))>>
    [] bowlingStreak(last5) = "cold" ->
         <<"Cold streak: High economy rate", FifthsToFixed(avgEconomy(last5))>>
    [] OTHER -> <<"Steady form: Consistent performance">>

battingSummary(last5) ==
  CASE battingStreak(last5) = "hot" ->
         <<"Hot form", FifthsToFixed(avgRuns(last5)), scores30Plus(last5)>>
    [] battingStreak(last5) = "cold" ->
         <<"Cold streak: Low avg", FifthsToFixed(avgRuns(last5))>>
    [] OTHER -> <<"Steady form: Consistent", FifthsToFixed(avgRuns(last5))>>

\* What a call does: it returns a value or it throws.
Returned(v) == [outcome |-> "returned", value |-> v]

Threw == [outcome |-> "threw", value |-> Null]

\* Mutant: the length is read before the list is tested for null.
analyzeRecentForm_LengthFirst(matches, role) ==
  IF matches = Null THEN Threw
  ELSE IF Len(matches[1]) = 0 THEN Returned(Null)
  ELSE Returned(Some([ streak |-> battingStreak(SliceLast5(matches[1])),
                       summary |-> battingSummary(SliceLast5(matches[1])),
                       momentumScore |-> battingMomentum(SliceLast5(matches[1])) ]))

\* analyzeRecentForm(recentMatches, playerRole); matches is Null for a null
\* or undefined list and Some(list) for a list.
analyzeRecentForm(matches, role) ==
  IF matches = Null \/ Len(matches[1]) = 0 THEN Returned(Null)
  ELSE LET last5 == SliceLast5(matches[1])
       IN IF role = "Bowler"
          THEN Returned(Some([ streak |-> bowlingStreak(last5),
                               summary |-> bowlingSummary(last5),
                               momentumScore |-> bowlingMomentum(last5) ]))
          ELSE Returned(Some([ streak |-> battingStreak(last5),
                               summary |-> battingSummary(last5),
                               momentumScore |-> battingMomentum(last5) ]))

\* The roles of the player catalog, and a role outside it.
RoleInputs == {"Batsman", "Bowler", "All-rounder", "Wicket-keeper", "Umpire"}

\* Match lists have at most MaxMatches records.
MatchRecordInputs(role) ==
  IF role = "Bowler"
  THEN { [runs |-> 0, strikeRate |-> 0], 
         [runs |-> 0, strikeRate |-> 0, economy |-> 0, wickets |-> 0],
         [runs |-> 0, strikeRate |-> 0, economy |-> 65, wickets |-> 1],
         [runs |-> 0, strikeRate |-> 0, economy |-> 40],
         [runs |-> 0, strikeRate |-> 0, economy |-> 120, wickets |-> 3] }
  ELSE { [runs |-> 0, strikeRate |-> 0],
         [runs |-> 19, strikeRate |-> 633],
         [runs |-> 30, strikeRate |-> 1000],
         [runs |-> 45, strikeRate |-> 1500],
         [runs |-> 120, strikeRate |-> 2400] }

RECURSIVE MatchListInputs(_, _)
MatchListInputs(role, n) ==
  IF n = 0 THEN { <<>> }
  ELSE LET shorter == MatchListInputs(role, n - 1)
       IN shorter \cup { Append(s, m) : s \in { t \in shorter : Len(t) = n - 1 },
                                        m \in MatchRecordInputs(role) }

InitForm ==
  /\ formRole \in {"Batsman", "Bowler", "Umpire"}
  /\ recentMatches \in { Null } \cup { Some(s) : s \in MatchListInputs(formRole, MaxMatches) }
  /\ formOutcome = "pending"
  /\ formAnalysis = Null

\* analyzeRecentForm(recentMatches, formRole) is called and its result kept.
AnalyzeRecentForm ==
  /\ formOutcome = "pending"
  /\ formOutcome' = analyzeRecentForm(recentMatches, formRole).outcome
  /\ formAnalysis' = analyzeRecentForm(recentMatches, formRole).value
  /\ UNCHANGED <<recentMatches, formRole, predictorVars, playerVars>>

(***************************************************************************)
(* PlayerDeepDive: generatePlayerStats.                                    *)
(*                                                                         *)
(* One invocation makes its Math.random() calls in source order.  The      *)
(* calls of an invocation are a stream rnd = <<a, b>>: call number j (from *)
(* 0) returns ((a + b * j) % RandDen) / RandDen, so every call sees every  *)
(* draw, with equal draws (b = 0) and with moving ones.  Numbers with one  *)
(* decimal are kept in tenths, toFixed rounding half up.                   *)
(***************************************************************************)
Streams == Draws \X (0 .. MaxStep)

\* The numerator of the value of Math.random() call number j.
Draw(rnd, j) == (rnd[1] + (rnd[2] * j)) % RandDen

\* Math.floor(baseNum / baseDen + Math.random() * mult)
FloorDraw(baseNum, baseDen, mult, k) ==
  ((baseNum * RandDen) + (baseDen * mult * k)) \div (baseDen * RandDen)

\* (base + Math.random() * mult).toFixed(1) in tenths, with base10 = 10 * base
\* and mult10 = 10 * mult.
FixedDraw(base10, mult10, k) ==
  ((2 * ((base10 * RandDen) + (mult10 * k))) + RandDen) \div (2 * RandDen)

\* const teamRanking = Math.floor(Math.random() * 10) + 1
teamRanking(rnd) == FloorDraw(0, 1, 10, Draw(rnd, 0)) + 1

rankingBonus(rnd) == Max(0, 15 - teamRanking(rnd))

\* Number(baseAverage.toFixed(1)), baseAverage = 25 + rankingBonus * 2 + random * 20
baseAverage(rnd) == FixedDraw(250 + (20 * rankingBonus(rnd)), 200, Draw(rnd, 1))

\* Number(baseStrikeRate.toFixed(1)), baseStrikeRate = 70 + rankingBonus * 3 + random * 30
baseStrikeRate(rnd) == FixedDraw(700 + (30 * rankingBonus(rnd)), 300, Draw(rnd, 2))

\* The first Math.random() call of generateRoleSpecificStats is call 3.
bowlerStats(rb, rnd) ==
  [ totalWickets |-> FloorDraw(150 + (rb * 50), 1, 200, Draw(rnd, 3)),
    totalMatches |-> FloorDraw(80, 1, 120, Draw(rnd, 4)),
    bowlingAverage |-> FixedDraw(200, 150, Draw(rnd, 5)),
    economyRate |-> FixedDraw(35, 25, Draw(rnd, 6)),
    strikeRate |-> FixedDraw(180, 120, Draw(rnd, 7)),
    bestFigures |-> << FloorDraw(4, 1, 6, Draw(rnd, 8)), FloorDraw(15, 1, 35, Draw(rnd, 9)) >>,
    fiveWicketHauls |-> FloorDraw(rb, 3, 8, Draw(rnd, 10)),
    totalRuns |-> FloorDraw(500, 1, 1500, Draw(rnd, 11)),
    battingAverage |-> FixedDraw(150, 200, Draw(rnd, 12)),
    highestScore |-> FloorDraw(30, 1, 70, Draw(rnd, 13)) ]

\* Mutant: the all-rounder's bowling average is drawn from 25 + random * 20.
allRounderBowlingAverage_Wide(rnd) == FixedDraw(250, 200, Draw(rnd, 10))

\* bowlingAverage: Number((25 + Math.random() * 15).toFixed(1))
allRounderBowlingAverage(rnd) == FixedDraw(250, 150, Draw(rnd, 10))

allRounderStats(strikeRate, rb, rnd) ==
  [ totalRuns |-> FloorDraw(3000 + (rb * 400), 1, 4000, Draw(rnd, 3)),
    totalMatches |-> FloorDraw(80, 1, 120, Draw(rnd, 4)),
    centuries |-> FloorDraw(rb, 3, 6, Draw(rnd, 5)),
    fifties |-> FloorDraw(8 + rb, 1, 15, Draw(rnd, 6)),
    average |-> FixedDraw(350, 150, Draw(rnd, 7)),
    strikeRate |-> strikeRate,
    highestScore |-> FloorDraw(120 + (rb * 3), 1, 80, Draw(rnd, 8)),
    totalWickets |-> FloorDraw(80 + (rb * 20), 1, 120, Draw(rnd, 9)),
    bowlingAverage |-> allRounderBowlingAverage(rnd),
    economyRate |-> FixedDraw(40, 20, Draw(rnd, 11)),
    fiveWicketHauls |-> FloorDraw(0, 1, 4, Draw(rnd, 12)) ]

wicketKeeperStats(average, strikeRate, rb, rnd) ==
  [ totalRuns |-> FloorDraw(2500 + (rb * 350), 1, 3500, Draw(rnd, 3)),
    totalMatches |-> FloorDraw(70, 1, 100, Draw(rnd, 4)),
    centuries |-> FloorDraw(rb, 3, 7, Draw(rnd, 5)),
    fifties |-> FloorDraw(6 + rb, 1, 12, Draw(rnd, 6)),
    average |-> average,
    strikeRate |-> strikeRate,
    highestScore |-> FloorDraw(80 + (rb * 4), 1, 100, Draw(rnd, 7)),
    totalDismissals |-> FloorDraw(200 + (rb * 30), 1, 250, Draw(rnd, 8)),
    catches |-> FloorDraw(150 + (rb * 25), 1, 200, Draw(rnd, 9)),
    stumpings |-> FloorDraw(20 + (rb * 2), 1, 30, Draw(rnd, 10)) ]

batsmanStats(average, strikeRate, rb, rnd) ==
  [ totalRuns |-> FloorDraw(4000 + (rb * 500), 1, 5000, Draw(rnd, 3)),
    totalMatches |-> FloorDraw(80, 1, 120, Draw(rnd, 4)),
    centuries |-> FloorDraw(rb, 2, 12, Draw(rnd, 5)),
    fifties |-> FloorDraw(10 + rb, 1, 20, Draw(rnd, 6)),
    average |-> average,
    strikeRate |-> strikeRate,
    highestScore |-> FloorDraw(120 + (rb * 5), 1, 150, Draw(rnd, 7)) ]

\* Mutant: a role outside the three named ones gets the wicket-keeper's record.
generateRoleSpecificStats_KeeperDefault(role, average, strikeRate, rb, rnd) ==
  CASE role = "Bowler" -> bowlerStats(rb, rnd)
    [] role = "All-rounder" -> allRounderStats(strikeRate, rb, rnd)
    [] role = "Batsman" -> batsmanStats(average, strikeRate, rb, rnd)
    [] OTHER -> wicketKeeperStats(average, strikeRate, rb, rnd)

\* generateRoleSpecificStats(playerRole, baseAverage, baseStrikeRate, rankingBonus)
generateRoleSpecificStats(role, average, strikeRate, rb, rnd) ==
  CASE role = "Bowler" -> bowlerStats(rb, rnd)
    [] role = "All-rounder" -> allRounderStats(strikeRate, rb, rnd)
    [] role = "Wicket-keeper" -> wicketKeeperStats(average, strikeRate, rb, rnd)
    [] OTHER -> batsmanStats(average, strikeRate, rb, rnd)

\* The number of Math.random() calls generateRoleSpecificStats makes.
careerDraws(role) ==
  CASE role = "Bowler" -> 11
    [] role = "All-rounder" -> 10
    [] role = "Wicket-keeper" -> 8
    [] OTHER -> 5

\* { skill, value: Math.floor(base + bonus + Math.random() * spread) }
skillEntry(skill, base, spread, bonus, k) ==
  [ skill |-> skill, value |-> FloorDraw(base + bonus, 1, spread, k) ]

\* The six skills of a role: names, bases and spreads.
skillTable(role) ==
  CASE role = "Bowler" ->
         << <<"Pace/Spin", 65, 30>>, <<"Accuracy", 70, 25>>, <<"Swing/Turn", 60, 35>>,
            <<"Variations", 55, 40>>, <<"Pressure Bowling", 50, 45>>,
            <<"Death Bowling", 45, 50>> >>
    [] role = "All-rounder" ->
         << <<"Batting Technique", 60, 30>>, <<"Power Hitting", 55, 35>>,
            <<"Bowling Accuracy", 58, 32>>, <<"Fielding", 65, 30>>,
            <<"Match Awareness", 70, 25>>, <<"Versatility", 75, 20>> >>
    [] role = "Wicket-keeper" ->
         << <<"Keeping Skills", 75, 20>>, <<"Batting Technique", 60, 30>>,
            <<"Reflexes", 80, 15>>, <<"Leadership", 65, 30>>,
            <<"Match Reading", 70, 25>>, <<"Agility", 75, 20>> >>
    [] OTHER ->
         << <<"Power Hitting", 60, 35>>, <<"Timing", 65, 30>>, <<"Placement", 55, 40>>,
            <<"Running", 70, 25>>, <<"Pressure Handling", 50, 45>>,
            <<"Consistency", 60, 35>> >>

\* generateRoleSpecificSkills(playerRole, rankingBonus); its first
\* Math.random() call follows those of generateRoleSpecificStats.
generateRoleSpecificSkills(role, rb, rnd) ==
  [ i \in 1 .. 6 |->
      skillEntry(skillTable(role)[i][1], skillTable(role)[i][2], skillTable(role)[i][3],
                 rb * 2, Draw(rnd, 2 + careerDraws(role) + i)) ]

\* generateSituationalStats(playerName, playerRole, nameHash)
generateSituationalStats(role, hash) ==
  LET factor == hash % 100
  IN IF role = "Bowler"
     THEN [ defending |-> [ economy |-> 52 + (factor % 15),
                            strikeRate |-> 10 * (18 + (factor % 12)),
                            average |-> 10 * (22 + (factor % 18)) ],
            chasing |-> [ economy |-> 61 + (factor % 20),
                          strikeRate |-> 10 * (21 + (factor % 15)),
                          average |-> 10 * (25 + (factor % 15)) ],
            pressure |-> [ deathOversEconomy |-> 78 + (factor % 25),
                           powerplayWickets |-> 8 + (factor % 12),
                           successRate |-> 65 + (factor % 25) ] ]
     ELSE [ chasing |-> [ average |-> 10 * (38 + (factor % 25)),
                          strikeRate |-> 10 * (89 + (factor % 35)),
                          successRate |-> 68 + (factor % 25) ],
            defending |-> [ average |-> 10 * (35 + (factor % 20)),
                            strikeRate |-> 10 * (78 + (factor % 30)),
                            successRate |-> 72 + (factor % 20) ],
            pressure |-> [ lastTenOvers |-> 10 * (82 + (factor % 30)),
                           boundaries |-> 12 + (factor % 8),
                           clutchScore |-> 67 + (factor % 28) ] ]

\* generatePhasePerformance(playerRole, nameHash)
generatePhasePerformance(role, hash) ==
  LET factor == hash % 100
  IN IF role = "Bowler"
     THEN << [ phase |-> "Powerplay (1-6)", economy |-> 58 + (factor % 15),
               strikeRate |-> 10 * (16 + (factor % 8)), wickets |-> 12 + (factor % 18) ],
             [ phase |-> "Middle (7-15)", economy |-> 49 + (factor % 12),
               strikeRate |-> 10 * (19 + (factor % 10)), wickets |-> 25 + (factor % 25) ],
             [ phase |-> "Death (16-20)", economy |-> 82 + (factor % 20),
               strikeRate |-> 10 * (14 + (factor % 8)), wickets |-> 8 + (factor % 12) ] >>
     ELSE << [ phase |-> "Powerplay (1-6)", average |-> 10 * (28 + (factor % 15)),
               strikeRate |-> 10 * (135 + (factor % 40)), runs |-> 850 + (factor % 400) ],
             [ phase |-> "Middle (7-15)", average |-> 10 * (42 + (factor % 20)),
               strikeRate |-> 10 * (89 + (factor % 25)), runs |-> 1200 + (factor % 600) ],
             [ phase |-> "Death (16-20)", average |-> 10 * (31 + (factor % 18)),
               strikeRate |-> 10 * (167 + (factor % 45)), runs |-> 720 + (factor % 350) ] >>

\* generateHomeAwayStats(nameHash, teamName); the third best venue is the
\* text 'Home Ground, ' followed by the team's name.
generateHomeAwayStats(hash, team) ==
  LET factor == hash % 100
  IN [ home |-> [ matches |-> 35 + (factor % 25), average |-> 10 * (45 + (factor % 20)),
                  strikeRate |-> 10 * (88 + (factor % 25)), runs |-> 1800 + (factor % 800) ],
       away |-> [ matches |-> 28 + (factor % 20), average |-> 10 * (38 + (factor % 18)),
                  strikeRate |-> 10 * (82 + (factor % 20)), runs |-> 1200 + (factor % 600) ],
       neutral |-> [ matches |-> 15 + (factor % 12), average |-> 10 * (41 + (factor % 16)),
                     strikeRate |-> 10 * (85 + (factor % 22)), runs |-> 650 + (factor % 300) ],
       bestVenues |->
         << [ venue |-> <<"Lord's, London">>, average |-> 10 * (52 + (factor % 20)),
              matches |-> 6 + (factor % 8) ],
            [ venue |-> <<"MCG, Melbourne">>, average |-> 10 * (48 + (factor % 25)),
              matches |-> 4 + (factor % 6) ],
            [ venue |-> <<"Home Ground, ", team>>, average |-> 10 * (55 + (factor % 15)),
              matches |-> 8 + (factor % 10) ] >> ]

\* months.slice(-6)
trendMonths == <<"Jul", "Aug", "Sep", "Oct", "Nov", "Dec">>

\* generateTrendData(playerName); index runs from 0.
generateTrendData(name) ==
  [ i \in 1 .. 6 |->
      [ month |-> trendMonths[i],
        average |-> 10 * (35 + ((nameHash(name) + ((i - 1) * 3)) % 25)),
        strikeRate |-> 10 * (85 + ((nameHash(name) + ((i - 1) * 5)) % 40)) ] ]

careerFormats == <<"T20I", "ODI", "Test">>

\* generateFormatData(playerName)
generateFormatData(name) ==
  [ i \in 1 .. 3 |->
      LET matches == 45 + ((nameHash(name) + ((i - 1) * 7)) % 30)
          average == 35 + ((nameHash(name) + ((i - 1) * 4)) % 20)
      IN [ format |-> careerFormats[i],
           matches |-> matches,
           average |-> 10 * average,
           strikeRate |-> 10 * (80 + ((nameHash(name) + ((i - 1) * 6)) % 35)),
           runs |-> average * matches ] ]

careerOpponents ==
  <<"Australia", "England", "India", "South Africa", "New Zealand", "Pakistan",
    "West Indies", "Sri Lanka", "Bangladesh", "Afghanistan">>

\* generateOpponentData(playerName)
generateOpponentData(name) ==
  [ i \in 1 .. 10 |->
      [ opponent |-> careerOpponents[i],
        matches |-> 8 + ((nameHash(name) + ((i - 1) * 3)) % 12),
        average |-> 10 * (30 + ((nameHash(name) + ((i - 1) * 5)) % 25)),
        runs |-> 180 + ((nameHash(name) + ((i - 1) * 20)) % 300) ] ]

\* The record generatePlayerStats returns, given the name hash of line 355.
playerStatsRecord(name, team, role, rnd, hash) ==
  [ playerName |-> name,
    teamName |-> team,
    playerRole |-> role,
    hasRealData |-> FALSE,
    dataSources |-> <<"dummy_data">>,
    careerStats |-> generateRoleSpecificStats(role, baseAverage(rnd), baseStrikeRate(rnd),
                                              rankingBonus(rnd), rnd),
    recentForm |-> generateFallbackMatches(name),
    recentFormAnalysis |-> analyzeRecentForm(Some(generateFallbackMatches(name)), role).value,
    situationalStats |-> generateSituationalStats(role, hash),
    phasePerformance |-> generatePhasePerformance(role, hash),
    homeAwayStats |-> generateHomeAwayStats(hash, team),
    performanceTrend |-> generateTrendData(name),
    formatPerformance |-> generateFormatData(name),
    vsOpponents |-> generateOpponentData(name),
    playerSkills |-> generateRoleSpecificSkills(role, rankingBonus(rnd), rnd) ]

\* Mutant: the hash of the advanced analytics is shifted by the first draw.
generatePlayerStats_DrawnHash(name, team, role, rnd) ==
  playerStatsRecord(name, team, role, rnd, nameHash(name) + Draw(rnd, 0))

\* generatePlayerStats(playerName, teamName, playerRole)
generatePlayerStats(name, team, role, rnd) ==
  playerStatsRecord(name, team, role, rnd, nameHash(name))

\* The players given to generatePlayerStats: the empty name and catalog
\* names, two teams, the four roles and a role outside them.
StatsNameInputs == { <<>> } \cup SampleNames

StatsTeamInputs == {"India", "England"}

InitStats ==
  /\ playerName \in StatsNameInputs
  /\ teamName \in StatsTeamInputs
  /\ playerRole \in RoleInputs
  /\ recentForm = Null
  /\ playerAnalysisData = Null

\* handlePlayerSelect: generatePlayerStats runs with the draws of one
\* invocation and its result becomes playerAnalysisData.
GeneratePlayerStats(rnd) ==
  /\ playerAnalysisData = Null
  /\ playerAnalysisData' = Some(generatePlayerStats(playerName, teamName, playerRole, rnd))
  /\ UNCHANGED <<playerName, teamName, playerRole, recentForm, predictorVars, formVars>>

(***************************************************************************)
(* MatchPredictor, backend revision: teams and venues are loaded from the  *)
(* backend, and the prediction is requested from it.  A field a team       *)
(* record may lack (ranking, national_team, has_real_data) is nullable.    *)
(***************************************************************************)
\* The teams used when none were loaded.
sampleTeams ==
  << [id |-> 1, name |-> "India", code |-> "IND",
      ranking |-> Null, national_team |-> Null, has_real_data |-> Null],
     [id |-> 2, name |-> "Australia", code |-> "AUS",
      ranking |-> Null, national_team |-> Null, has_real_data |-> Null],
     [id |-> 3, name |-> "England", code |-> "ENG",
      ranking |-> Null, national_team |-> Null, has_real_data |-> Null],
     [id |-> 4, name |-> "New Zealand", code |-> "NZ",
      ranking |-> Null, national_team |-> Null, has_real_data |-> Null],
     [id |-> 5, name |-> "South Africa", code |-> "SA",
      ranking |-> Null, national_team |-> Null, has_real_data |-> Null],
     [id |-> 6, name |-> "Pakistan", code |-> "PAK",
      ranking |-> Null, national_team |-> Null, has_real_data |-> Null],
     [id |-> 7, name |-> "West Indies", code |-> "WI",
      ranking |-> Null, national_team |-> Null, has_real_data |-> Null],
     [id |-> 8, name |-> "Sri Lanka", code |-> "SL",
      ranking |-> Null, national_team |-> Null, has_real_data |-> Null] >>

generateMockVenues ==
  << [id |-> 1, name |-> "Melbourne Cricket Ground (MCG)"],
     [id |-> 2, name |-> "Lord's Cricket Ground"],
     [id |-> 3, name |-> "Eden Gardens"],
     [id |-> 4, name |-> "Wankhede Stadium"],
     [id |-> 5, name |-> "Sydney Cricket Ground (SCG)"],
     [id |-> 6, name |-> "The Oval"],
     [id |-> 7, name |-> "Old Trafford"],
     [id |-> 8, name |-> "Newlands"] >>

\* availableTeams of the backend revision, from the real-data state rd.
loadedOrSampleTeams(rd) ==
  IF Len(rd.teams) > 0 THEN rd.teams ELSE sampleTeams

\* team.ranking || 99
rankingOrDefault(team) ==
  IF team.ranking # Null /\ team.ranking[1] # 0 THEN team.ranking[1] ELSE 99

RECURSIVE InsertByRankingOrDefault(_, _)
InsertByRankingOrDefault(t, s) ==
  IF s = <<>> THEN <<t>>
  ELSE IF rankingOrDefault(t) - rankingOrDefault(Head(s)) < 0 THEN <<t>> \o s
  ELSE <<Head(s)>> \o InsertByRankingOrDefault(t, Tail(s))

RECURSIVE SortByRankingOrDefault(_)
SortByRankingOrDefault(s) ==
  IF s = <<>> THEN <<>>
  ELSE InsertByRankingOrDefault(s[Len(s)],
                                SortByRankingOrDefault(SubSeq(s, 1, Len(s) - 1)))

\* sortedTeams of the backend revision.
rankedTeams(rd) == SortByRankingOrDefault(loadedOrSampleTeams(rd))

\* team.national_team !== false && (team.ranking || 99) <= 14
isInternational(team) ==
  /\ team.national_team # Some(FALSE)
  /\ rankingOrDefault(team) <= 14

\* internationalTeams of the backend revision.
rankedInternationalTeams(rd) == SelectSeq(rankedTeams(rd), isInternational)

\* team.has_real_data && !internationalTeams.includes(team)
isLiveDataTeam(team) ==
  /\ team.has_real_data = Some(TRUE)
  /\ ~isInternational(team)

liveDataTeams(rd) == SelectSeq(rankedTeams(rd), isLiveDataTeam)

\* availableVenues of the backend revision.
loadedOrMockVenues(rd) ==
  IF Len(rd.venues) > 0 THEN rd.venues ELSE generateMockVenues

NamesOf(s) == { s[i].name : i \in DOMAIN s }

\* The options of the Team A selector.
teamAOptions(rd) ==
  {""} \cup NamesOf(rankedInternationalTeams(rd)) \cup NamesOf(liveDataTeams(rd))

\* The options of the Team B selector: those of Team A without the team
\* selected there.
teamBOptions(rd, fd) ==
  {""} \cup { n \in NamesOf(rankedInternationalTeams(rd))
                      \cup NamesOf(liveDataTeams(rd)) : n # fd.teamA }

venueOptions(rd) == {""} \cup NamesOf(loadedOrMockVenues(rd))

\* The options the rendered form offers for a field.
formOptions(field) ==
  CASE field = "teamA" -> teamAOptions(realData)
    [] field = "teamB" -> teamBOptions(realData, formData)
    [] field = "venue" -> venueOptions(realData)
    [] field = "tossWinner" -> TossWinnerInputs(formData)
    [] field = "tossDecision" -> TossDecisionInputs
    [] field = "matchType" -> MatchTypeInputs

\* response.data || [] : the list a response carries, or none.
dataOrEmpty(data) == IF data = Null THEN <<>> ELSE data[1]

\* Teams the backend may answer with.
LoadedTeams ==
  << [id |-> 21, name |-> "Mumbai Indians", code |-> "MI",
      ranking |-> Null, national_team |-> Some(FALSE), has_real_data |-> Some(TRUE)],
     [id |-> 2, name |-> "Australia", code |-> "AUS",
      ranking |-> Some(2), national_team |-> Some(TRUE), has_real_data |-> Some(TRUE)],
     [id |-> 1, name |-> "India", code |-> "IND",
      ranking |-> Some(1), national_team |-> Some(TRUE), has_real_data |-> Some(FALSE)] >>

TeamsResponseInputs == { Null, Some(<<>>), Some(LoadedTeams) }

VenuesResponseInputs == { Null, Some(<<[id |-> 3, name |-> "Eden Gardens"]>>) }

\* loadRealData, both requests resolved.
loadRealDataResolved(teamsData, venuesData) ==
  /\ realData.loading
  /\ realData' = [ teams |-> dataOrEmpty(teamsData),
                   venues |-> dataOrEmpty(venuesData),
                   loading |-> FALSE,
                   error |-> Null ]
  /\ UNCHANGED <<formData, prediction, loading, error, pc, req, playerVars, formVars>>

\* loadRealData, a request rejected.
loadRealDataRejected ==
  /\ realData.loading
  /\ realData' = [ realData EXCEPT
                     !.loading = FALSE,
                     !.error = Some("Unable to load real cricket data. Using sample data for demonstration.") ]
  /\ UNCHANGED <<formData, prediction, loading, error, pc, req, playerVars, formVars>>

\* The user picks an option of a field of the rendered form.
selectOption(field, value) ==
  /\ ~realData.loading
  /\ value \in formOptions(field)
  /\ handleInputChange(field, value)

\* Mutant: a rejected request leaves no error message.
predictMatchRejected_Silent ==
  /\ pc = "requesting"
  /\ loading' = FALSE
  /\ pc' = "idle"
  /\ req' = Null
  /\ UNCHANGED <<formData, prediction, error, realData, playerVars, formVars>>

\* handlePredict of the backend revision up to its await: validation, then
\* the request is sent with the formData of the render.
requestPrediction ==
  /\ ~realData.loading
  /\ pc = "idle"
  /\ loading = FALSE
  /\ IF formData.teamA = "" \/ formData.teamB = ""
     THEN /\ error' = Some("Please select both teams")
          /\ UNCHANGED <<loading, pc, req>>
     ELSE IF formData.teamA = formData.teamB
     THEN /\ error' = Some("Please select different teams")
          /\ UNCHANGED <<loading, pc, req>>
     ELSE /\ loading' = TRUE
          /\ error' = Null
          /\ pc' = "requesting"
          /\ req' = Some(formData)
  /\ UNCHANGED <<formData, prediction, realData, playerVars, formVars>>

\* The results the prediction service answers a request with.
PredictionResults(fd) ==
  { [ winner |-> w[1], loser |-> w[2],
      probability |-> p, loserProbability |-> 100 - p,
      confidence |-> 75,
      factors |-> <<[name |-> "Team Ranking", impact |-> 25]>> ] :
    w \in { <<fd.teamA, fd.teamB>>, <<fd.teamB, fd.teamA>> }, p \in {50, 80} }

\* predictMatch resolved: the result is displayed.
predictMatchResolved(result) ==
  /\ pc = "requesting"
  /\ prediction' = Some(result)
  /\ loading' = FALSE
  /\ pc' = "idle"
  /\ req' = Null
  /\ UNCHANGED <<formData, error, realData, playerVars, formVars>>

\* predictMatch rejected (an error answer, no answer within the client's
\* timeout): the error message is displayed.
predictMatchRejected ==
  /\ pc = "requesting"
  /\ error' = Some("Failed to get prediction. Please try again.")
  /\ loading' = FALSE
  /\ pc' = "idle"
  /\ req' = Null
  /\ UNCHANGED <<formData, prediction, realData, playerVars, formVars>>

\* The request settles, either way.
predictMatchSettles ==
  /\ pc = "requesting"
  /\ \/ \E result \in PredictionResults(req[1]) : predictMatchResolved(result)
     \/ predictMatchRejected

(***************************************************************************)
(* Specifications.                                                         *)
(***************************************************************************)
\* The predictor applied to every filled-in form, under the extreme draws.
InitPredict == InitFilledForm /\ IdlePlayer /\ IdleForm

NextPredict ==
  \/ handlePredict
  \/ \E k \in ExtremeDraws : handlePredictResume(k)

SpecPredict == InitPredict /\ [][NextPredict]_vars

\* The predictor applied to every choice of teams, under every draw.
InitDraws ==
  /\ InitFilledForm
  /\ formData.venue = ""
  /\ formData.tossWinner = ""
  /\ formData.tossDecision = "bat"
  /\ formData.matchType = "t20"
  /\ IdlePlayer
  /\ IdleForm

NextDraws ==
  \/ handlePredict
  \/ \E k \in Draws : handlePredictResume(k)

SpecDraws == InitDraws /\ [][NextDraws]_vars

\* The form analysis applied to every match list.
InitAnalysis == InitPredictor /\ IdlePlayer /\ InitForm

NextAnalysis == AnalyzeRecentForm

SpecAnalysis == InitAnalysis /\ [][NextAnalysis]_vars

\* The player statistics generated for every player and stream of draws.
InitStatistics == InitPredictor /\ InitStats /\ IdleForm

NextStatistics == \E rnd \in Streams : GeneratePlayerStats(rnd)

SpecStatistics == InitStatistics /\ [][NextStatistics]_vars

\* The values the selects of the form offer, for two of the teams and one
\* of the venues: Team B leaves out the selected Team A, the toss winner is
\* one of the selected teams.
SessionTeams == {"India", "Pakistan"}

SelectOptions(field) ==
  CASE field = "teamA" -> SessionTeams \cup {""}
    [] field = "teamB" -> (SessionTeams \ {formData.teamA}) \cup {""}
    [] field = "venue" -> {availableVenues[1], ""}
    [] field = "tossWinner" -> TossWinnerInputs(formData)
    [] field = "tossDecision" -> TossDecisionInputs
    [] field = "matchType" -> MatchTypeInputs

SessionFields == {"teamA", "teamB", "venue", "tossWinner", "tossDecision", "matchType"}

\* A session with the form: fields change, also while a request is in
\* flight, and the form is submitted.
InitSession == InitPredictor /\ IdlePlayer /\ IdleForm

NextSession ==
  \/ \E field \in SessionFields : \E value \in SelectOptions(field) :
       handleInputChange(field, value)
  \/ handlePredict
  \/ \E k \in ExtremeDraws : handlePredictResume(k)

SpecSession == InitSession /\ [][NextSession]_vars

\* The backend revision of the predictor: the data loads or fails to load,
\* the user fills the form and submits; a request sent always settles, the
\* client giving up after its timeout.
BackendFields == {"teamA", "teamB", "venue"}

InitBackend == InitPredictor /\ IdlePlayer /\ IdleForm

NextBackend ==
  \/ \E teamsData \in TeamsResponseInputs, venuesData \in VenuesResponseInputs :
       loadRealDataResolved(teamsData, venuesData)
  \/ loadRealDataRejected
  \/ \E field \in BackendFields :
       \E value \in formOptions(field) : selectOption(field, value)
  \/ requestPrediction
  \/ predictMatchSettles

SpecBackend ==
  InitBackend /\ [][NextBackend]_vars /\ WF_vars(predictMatchSettles)

\* The session with the simulated request: the 1.5 s timer always fires, so
\* a pending handlePredict always resumes.
handlePredictResumes == \E k \in ExtremeDraws : handlePredictResume(k)

SpecSessionFair == SpecSession /\ WF_vars(handlePredictResumes)

\* The recent-form generator applied to every name.
InitMatches == InitPredictor /\ InitPlayer /\ IdleForm

NextMatches == GenerateFallbackMatches

SpecMatches == InitMatches /\ [][NextMatches]_vars

(***************************************************************************)
(* Properties of the predictor (checked under SpecPredict, where the form  *)
(* is not edited after the submit, so formData is the submitted form).     *)
(***************************************************************************)
\* The ranking the catalog lists for a team name.
rankingOf(name) ==
  LET i == CHOOSE i \in 1 .. Len(availableTeams) : availableTeams[i].name = name
  IN availableTeams[i].ranking

\* The probability the claims give team A of the submitted form.
claimedProbA == 
  LET raw == 50 + (3 * (rankingOf(formData.teamB) - rankingOf(formData.teamA)))
  IN Min(80, Max(20, raw))

\* The subsequence of the factors with impact > 0.
positiveFactors(fs) == SelectSeq(fs, LAMBDA f : f.impact > 0)

\* The four factors in their fixed order, Home Advantage having impact h.
claimedFactors(h) ==
  LET d == rankingOf(formData.teamB) - rankingOf(formData.teamA)
  IN << [name |-> "Team Ranking", impact |-> 5 * Abs(d)],
        [name |-> "Toss Advantage",
         impact |-> IF formData.tossWinner = prediction[1].winner THEN 15 ELSE 0],
        [name |-> "Home Advantage", impact |-> h],
        [name |-> "Format Experience", impact |-> 20] >>

\* C1: for distinct catalog teams A and B the prediction has
\* probA = min(80, max(20, 50 + 3*(ranking(B) - ranking(A)))) and
\* probB = 100 - probA; the winner is the team with the higher probability and
\* gets it, the loser gets the complementary one.
C1_WinnerByRanking ==
  prediction # Null =>
    LET p == prediction[1]
        pa == claimedProbA
        pb == 100 - pa
    IN /\ pa # pb
       /\ p.winner = (IF pa > pb THEN formData.teamA ELSE formData.teamB)
       /\ p.probability = Max(pa, pb)
       /\ p.loser = (IF pa > pb THEN formData.teamB ELSE formData.teamA)
       /\ p.loserProbability = Min(pa, pb)

\* A prediction where team B wins and the clamp at 80 applies.
C1_Witness ==
  /\ prediction # Null
  /\ formData.teamA = "Netherlands"
  /\ formData.teamB = "India"
  /\ prediction[1].winner = "India"
  /\ prediction[1].probability = 80
  /\ prediction[1].loserProbability = 20

\* C2: every prediction has probability + loserProbability = 100 and
\* 50 <= probability <= 80.
C2_ProbabilitiesSumTo100 ==
  prediction # Null =>
    /\ prediction[1].probability + prediction[1].loserProbability = 100
    /\ prediction[1].probability >= 50
    /\ prediction[1].probability <= 80

\* A prediction for neighbouring rankings, team A the lower ranked.
C2_Witness ==
  /\ prediction # Null
  /\ formData.teamA = "England"
  /\ formData.teamB = "Australia"
  /\ prediction[1].probability = 53
  /\ prediction[1].loserProbability = 47

\* C3: the factors list is the subsequence, in the fixed order Team Ranking,
\* Toss Advantage, Home Advantage, Format Experience, of the factors with
\* impact > 0, with Team Ranking 5*|rankingDiff|, Toss Advantage 15 when the
\* toss winner is the predicted winner and 0 otherwise, Format Experience 20;
\* every listed impact is > 0 and Format Experience is listed.
C3_FactorsFiltered ==
  prediction # Null =>
    LET fs == prediction[1].factors
    IN /\ \E h \in {0, 10} : fs = positiveFactors(claimedFactors(h))
       /\ \A i \in 1 .. Len(fs) : fs[i].impact > 0
       /\ Len(fs) >= 1
       /\ fs[Len(fs)] = [name |-> "Format Experience", impact |-> 20]

\* A prediction whose toss winner lost, so that Toss Advantage is filtered out.
C3_Witness ==
  /\ prediction # Null
  /\ formData.tossWinner = prediction[1].loser
  /\ prediction[1].factors =
       << [name |-> "Team Ranking", impact |-> 10],
          [name |-> "Format Experience", impact |-> 20] >>

\* Home Advantage is listed, with impact 10.
homeAdvantageListed ==
  \E i \in 1 .. Len(prediction[1].factors) :
    prediction[1].factors[i] = [name |-> "Home Advantage", impact |-> 10]

\* Some factor is named Home Advantage.
homeAdvantageNamed ==
  \E i \in 1 .. Len(prediction[1].factors) :
    prediction[1].factors[i].name = "Home Advantage"

\* C4: Home Advantage is listed with impact 10 if and only if the venue name
\* contains the predicted winner's team name; otherwise it is absent.
C4_HomeAdvantageIffVenueNamesWinner ==
  prediction # Null =>
    IF Includes(formData.venue, prediction[1].winner)
    THEN homeAdvantageListed
    ELSE ~homeAdvantageNamed

\* C5: India (1) against Australia (2), toss won by India, at
\* 'Home Ground, India': India wins 53 to 47 with the factors Team Ranking 5,
\* Toss Advantage 15, Home Advantage 10, Format Experience 20.
C5_IndiaAustraliaScenario ==
  ( /\ prediction # Null
    /\ formData.teamA = "India"
    /\ formData.teamB = "Australia"
    /\ formData.tossWinner = "India"
    /\ formData.venue = "Home Ground, India" ) =>
    /\ prediction[1].winner = "India"
    /\ prediction[1].probability = 53
    /\ prediction[1].loser = "Australia"
    /\ prediction[1].loserProbability = 47
    /\ prediction[1].factors =
         << [name |-> "Team Ranking", impact |-> 5],
            [name |-> "Toss Advantage", impact |-> 15],
            [name |-> "Home Advantage", impact |-> 10],
            [name |-> "Format Experience", impact |-> 20] >>

\* The scenario's prediction is displayed.
C5_Witness ==
  /\ prediction # Null
  /\ formData.teamA = "India"
  /\ formData.teamB = "Australia"
  /\ formData.tossWinner = "India"
  /\ formData.venue = "Home Ground, India"
  /\ prediction[1].winner = "India"

\* The forms that differ from the submitted one in one of the fields venue,
\* tossWinner, tossDecision, matchType.
otherContexts ==
  { [formData EXCEPT !.venue = v] : v \in VenueInputs }
    \cup { [formData EXCEPT !.tossWinner = t] : t \in TossWinnerInputs(formData) }
    \cup { [formData EXCEPT !.tossDecision = d] : d \in TossDecisionInputs }
    \cup { [formData EXCEPT !.matchType = m] : m \in MatchTypeInputs }

C7_ConfidenceRange ==
  prediction # Null => prediction[1].confidence \in 75 .. 95

\* A prediction with the largest confidence.
C7_Witness == prediction # Null /\ prediction[1].confidence = 95

(***************************************************************************)
(* Properties of generateFallbackMatches (checked under SpecMatches).      *)
(***************************************************************************)
\* The seed of the selected name and the sub-seed of iteration i.
seed == nameHash(playerName)

subSeed(i) == (seed + (i * 1000)) % 10000

\* C8: generateFallbackMatches returns exactly 10 records; each has
\* strikeRate = runs/balls*100 rounded to one decimal when balls > 0 (else
\* 0), and milestone 'Century' for runs >= 100, 'Fifty' for 50 <= runs < 100,
\* null otherwise.  (strikeRate is in tenths: it is the nearest tenth when
\* |strikeRate/10 - 100*runs/balls| <= 1/20.)
C8_TenRecordsStrikeRateMilestone ==
  recentForm # Null =>
    /\ Len(recentForm[1]) = 10
    /\ \A i \in 1 .. Len(recentForm[1]) :
         LET m == recentForm[1][i]
         IN /\ IF m.balls > 0
               THEN Abs((2 * m.balls * m.strikeRate) - (2000 * m.runs)) <= m.balls
               ELSE m.strikeRate = 0
            /\ m.runs >= 100 => m.milestone = Some("Century")
            /\ (m.runs >= 50 /\ m.runs < 100) => m.milestone = Some("Fifty")
            /\ m.runs < 50 => m.milestone = Null

\* A generated list with a fifty, a score below fifty and a strike rate that
\* is not a whole number of runs per hundred balls.
C8_Witness ==
  /\ recentForm # Null
  /\ \E i \in 1 .. 10 : recentForm[1][i].milestone = Some("Fifty")
  /\ \E i \in 1 .. 10 : recentForm[1][i].milestone = Null
  /\ \E i \in 1 .. 10 : recentForm[1][i].strikeRate % 10 # 0

\* C9 as claimed: for a seed with seed % 3 = 0 and seed % 4 = 0 the base
\* strike rate is the consistent one, 70, and the runs of each of the 10
\* matches are computed by the aggressive boom/bust branch.
C9_ConsistentRateAggressiveRuns ==
  (recentForm # Null /\ seed % 3 = 0 /\ seed % 4 = 0) =>
    \A i \in 0 .. 9 :
      LET m == recentForm[1][i + 1]
          ms == subSeed(i)
      IN /\ m.runs = (IF ms % 4 = 0 THEN 50 + (ms % 50) ELSE ms % 90)
         /\ m.balls = Max(20, ((m.runs * 100) + (((ms % 20) - 10) * 70)) \div 70)

\* C9 as amended: for a seed with seed % 3 = 0 and seed % 4 = 0 the base
\* strike rate is the aggressive one, 85 (isAggressive is tested first), and
\* the runs of each of the 10 matches are computed by the consistent band
\* formula 25 + subSeed % 40 (isConsistent is tested first).
C9_AggressiveRateConsistentRuns ==
  (recentForm # Null /\ seed % 3 = 0 /\ seed % 4 = 0) =>
    \A i \in 0 .. 9 :
      LET m == recentForm[1][i + 1]
          ms == subSeed(i)
      IN /\ m.runs = 25 + (ms % 40)
         /\ m.balls = Max(20, ((m.runs * 100) + (((ms % 20) - 10) * 85)) \div 85)

\* The matches of seed 0 have been generated.
C9_Witness ==
  /\ recentForm # Null
  /\ seed = 0
  /\ recentForm[1][1].runs = 25
  /\ recentForm[1][1].balls = 20

\* C10: in iteration i, with subSeed = (seed + i*1000) % 10000: if only
\* isConsistent holds runs is in 25..65; if only isAggressive holds runs is
\* 50 + subSeed % 50 when subSeed % 4 = 0 and subSeed % 90 otherwise; if
\* neither holds runs is in 10..80.
C10_RunsByArchetype ==
  recentForm # Null =>
    \A i \in 0 .. 9 :
      LET r == recentForm[1][i + 1].runs
          ms == subSeed(i)
      IN /\ (seed % 4 = 0 /\ seed % 3 # 0) => r \in 25 .. 65
         /\ (seed % 3 = 0 /\ seed % 4 # 0) =>
              r = (IF ms % 4 = 0 THEN 50 + (ms % 50) ELSE ms % 90)
         /\ (seed % 3 # 0 /\ seed % 4 # 0) => r \in 10 .. 80

\* The matches of a seed that is neither aggressive nor consistent, with the
\* largest runs of that branch.
C10_Witness ==
  /\ recentForm # Null
  /\ seed % 3 # 0
  /\ seed % 4 # 0
  /\ \E i \in 1 .. 10 : recentForm[1][i].runs = 79

(***************************************************************************)
(* Claims about analyzeRecentForm.                                         *)
(***************************************************************************)
\* The records the analysis considers: the last five of the list.
considered == IF recentMatches = Null THEN <<>> ELSE SliceLast5(recentMatches[1])

analysed == formOutcome # "pending"

nonEmptyList == recentMatches # Null /\ Len(recentMatches[1]) > 0

\* C14: analyzeRecentForm returns null, without throwing, for an empty or
\* absent match list whatever the role, and for a non-empty list it returns
\* a record whose streak is hot, cold or steady.
C14_NullForNoMatches ==
  analysed =>
    /\ formOutcome = "returned"
    /\ ~nonEmptyList => formAnalysis = Null
    /\ nonEmptyList =>
         /\ formAnalysis # Null
         /\ formAnalysis[1].streak \in {"hot", "cold", "steady"}

C14_Witness ==
  /\ recentMatches = Null
  /\ formRole = "Bowler"
  /\ formOutcome = "returned"
  /\ formAnalysis = Null

\* The average of a quantity over the considered records is its sum divided
\* by their number, so "average >= c" is "sum >= c * number".
claimedRuns == SumSeq([ i \in DOMAIN considered |-> runsOf(considered[i]) ])

claimedStrikeRate == SumSeq([ i \in DOMAIN considered |-> strikeRateOf(considered[i]) ])

claimedEconomyOf(m) == IF "economy" \in DOMAIN m THEN m.economy ELSE 60

claimedWicketsOf(m) == IF "wickets" \in DOMAIN m THEN m.wickets ELSE 0

claimedEconomy == SumSeq([ i \in DOMAIN considered |-> claimedEconomyOf(considered[i]) ])

claimedWickets == SumSeq([ i \in DOMAIN considered |-> claimedWicketsOf(considered[i]) ])

claimedBattingStreak ==
  IF /\ claimedRuns >= 35 * Len(considered)
     /\ Cardinality({ i \in DOMAIN considered : considered[i].runs >= 30 }) >= 3
  THEN "hot"
  ELSE IF claimedRuns < 20 * Len(considered) THEN "cold" ELSE "steady"

claimedBowlingStreak ==
  IF claimedEconomy < 65 * Len(considered) /\ claimedWickets >= 3 THEN "hot"
  ELSE IF claimedEconomy > 80 * Len(considered) THEN "cold" ELSE "steady"

\* C15: for a role other than Bowler and a non-empty match list the streak
\* is hot exactly when the average runs of the considered matches are at
\* least 35 and at least 3 of them have 30 runs or more, cold exactly when
\* the average is below 20, and steady in every other case.
C15_BattingStreakByAverage ==
  (analysed /\ nonEmptyList /\ formRole # "Bowler") =>
    formAnalysis[1].streak = claimedBattingStreak

\* With five or more records in the list the streak is the claimed one.
C15_OnFiveRecords ==
  (analysed /\ nonEmptyList /\ formRole # "Bowler" /\ Len(considered) = 5) =>
    formAnalysis[1].streak = claimedBattingStreak

\* C16: for the role Bowler and a non-empty match list the streak is hot
\* exactly when the average economy is below 6.5 and the wickets total at
\* least 3, cold exactly when it is not hot and the average economy is
\* above 8.0, and steady otherwise; a match without an economy counts as
\* 6.0 and a match without wickets as 0 wickets.
C16_BowlingStreakByAverage ==
  (analysed /\ nonEmptyList /\ formRole = "Bowler") =>
    formAnalysis[1].streak = claimedBowlingStreak

\* With five or more records, none of them with economy 0, the streak is the
\* claimed one.
C16_OnFiveRecordsNoZero ==
  ( /\ analysed /\ nonEmptyList /\ formRole = "Bowler" /\ Len(considered) = 5
    /\ \A i \in DOMAIN considered : claimedEconomyOf(considered[i]) # 0 ) =>
    formAnalysis[1].streak = claimedBowlingStreak

\* The role's linear combination, in thousandths and times the number of
\* considered records.
claimedCombination ==
  IF formRole = "Bowler"
  THEN (100000 * Len(considered) - 1000 * claimedEconomy)
         + (5000 * Len(considered) * claimedWickets)
  ELSE (1500 * claimedRuns) + (30 * claimedStrikeRate)

\* C17: for every role and non-empty match list momentumScore is the role's
\* linear combination of the averages (batting avgRuns * 1.5 + avgSR * 0.3,
\* bowling 100 - avgEconomy * 10 + wickets * 5) clamped into [20, 100].
C17_MomentumIsClampedCombination ==
  (analysed /\ nonEmptyList) =>
    formAnalysis[1].momentumScore * Len(considered) =
      Min(100000 * Len(considered),
          Max(20000 * Len(considered), claimedCombination))

\* momentumScore lies in [20, 100] for every list.
C17_MomentumInRange ==
  (analysed /\ nonEmptyList) =>
    /\ formAnalysis[1].momentumScore >= 20000
    /\ formAnalysis[1].momentumScore <= 100000

\* With five or more records, none of them with economy 0, momentumScore is
\* the clamped combination.
C17_OnFiveRecordsNoZero ==
  ( /\ analysed /\ nonEmptyList /\ Len(considered) = 5
    /\ \A i \in DOMAIN considered : claimedEconomyOf(considered[i]) # 0 ) =>
    formAnalysis[1].momentumScore * 5 =
      Min(500000, Max(100000, claimedCombination))

(***************************************************************************)
(* Claims about the generated player data.                                 *)
(***************************************************************************)
\* The sum of the character codes of a name, taken from the front.
RECURSIVE CodeSum(_)
CodeSum(name) == IF name = <<>> THEN 0 ELSE Head(name) + CodeSum(Tail(name))

\* C13: the name hash is the sum of the character codes of the name's
\* characters: it has a value for every name, 0 for the empty name, and the
\* matches generated for a name are those of that sum.
C13_NameHashIsCodeSum ==
  recentForm # Null =>
    /\ nameHash(playerName) \in Nat
    /\ nameHash(playerName) = CodeSum(playerName)
    /\ playerName = <<>> => nameHash(playerName) = 0
    /\ recentForm[1] = matchesFrom(CodeSum(playerName), 0)

C13_Witness ==
  /\ playerName = <<86, 105, 114, 97, 116, 32, 75, 111, 104, 108, 105>>
  /\ recentForm # Null
  /\ nameHash(playerName) = 1053

\* The draws of a second invocation: those of the first and the extreme ones.
OtherStreams == ExtremeDraws \X (0 .. MaxStep)

generated == playerAnalysisData # Null

\* What a second invocation for the same player returns with the draws rnd.
secondInvocation(rnd) == generatePlayerStats(playerName, teamName, playerRole, rnd)

\* C11: two invocations of generatePlayerStats with the same name, team and
\* role return identical records, career statistics and skills included,
\* whatever the random draws.
C11_InvocationsIdentical ==
  generated => \A rnd \in OtherStreams : secondInvocation(rnd) = playerAnalysisData[1]

\* A match record without its date.
WithoutDate(m) == [ f \in (DOMAIN m) \ {"daysAgo"} |-> m[f] ]

\* The outputs derived from the name hash.
SeedDerived(d) ==
  [ recentForm |-> [ i \in DOMAIN d.recentForm |-> WithoutDate(d.recentForm[i]) ],
    recentFormAnalysis |-> d.recentFormAnalysis,
    situationalStats |-> d.situationalStats,
    phasePerformance |-> d.phasePerformance,
    homeAwayStats |-> d.homeAwayStats,
    performanceTrend |-> d.performanceTrend,
    formatPerformance |-> d.formatPerformance,
    vsOpponents |-> d.vsOpponents ]

\* C12: for a fixed name, team and role the recent form (dates aside), its
\* analysis, the situational, phase and home/away statistics, the trend,
\* the format performance and the opponent data are the same in every
\* invocation, whatever the random draws.
C12_SeedDerivedIndependentOfDraws ==
  generated =>
    \A rnd \in OtherStreams : SeedDerived(secondInvocation(rnd)) = SeedDerived(playerAnalysisData[1])

\* A second invocation whose draws change the career statistics.
C12_Witness ==
  /\ generated
  /\ playerName = <<86, 105, 114, 97, 116, 32, 75, 111, 104, 108, 105>>
  /\ Len(playerAnalysisData[1].recentForm) = 10
  /\ \E rnd \in OtherStreams :
       /\ secondInvocation(rnd).careerStats # playerAnalysisData[1].careerStats
       /\ SeedDerived(secondInvocation(rnd)) = SeedDerived(playerAnalysisData[1])

claimedKeys(role) ==
  CASE role = "Bowler" ->
         {"totalWickets", "totalMatches", "bowlingAverage", "economyRate", "strikeRate",
          "bestFigures", "fiveWicketHauls", "totalRuns", "battingAverage", "highestScore"}
    [] role = "All-rounder" ->
         {"totalRuns", "totalMatches", "centuries", "fifties", "average", "strikeRate",
          "highestScore", "totalWickets", "bowlingAverage", "economyRate", "fiveWicketHauls"}
    [] role = "Wicket-keeper" ->
         {"totalRuns", "totalMatches", "centuries", "fifties", "average", "strikeRate",
          "highestScore", "totalDismissals", "catches", "stumpings"}
    [] OTHER ->
         {"totalRuns", "totalMatches", "centuries", "fifties", "average", "strikeRate",
          "highestScore"}

\* C18: the keys of the career statistics depend on the role alone, not on
\* the draws or the ranking bonus: Bowler, All-rounder and Wicket-keeper
\* have their own key sets and every other role has the Batsman's.
C18_CareerKeysByRole ==
  generated =>
    /\ DOMAIN playerAnalysisData[1].careerStats = claimedKeys(playerRole)
    /\ \A rnd \in OtherStreams :
         DOMAIN secondInvocation(rnd).careerStats = DOMAIN playerAnalysisData[1].careerStats

C18_Witness ==
  /\ generated
  /\ playerRole = "Umpire"
  /\ DOMAIN playerAnalysisData[1].careerStats =
       {"totalRuns", "totalMatches", "centuries", "fifties", "average", "strikeRate",
        "highestScore"}

hasBowlingAverage == generated /\ "bowlingAverage" \in DOMAIN playerAnalysisData[1].careerStats

\* C19 as stated: for the roles whose career statistics have a
\* bowlingAverage, Bowler and All-rounder, it lies within 20 to 35.
C19_BowlingAverage20To35 ==
  hasBowlingAverage =>
    /\ playerRole \in {"Bowler", "All-rounder"}
    /\ playerAnalysisData[1].careerStats.bowlingAverage \in 200 .. 350

\* C19 amended: the Bowler's bowlingAverage lies within 20 to 35 and the
\* All-rounder's within 25 to 40.
C19_BowlingAverageByRole ==
  hasBowlingAverage =>
    /\ playerRole \in {"Bowler", "All-rounder"}
    /\ playerRole = "Bowler" =>
         playerAnalysisData[1].careerStats.bowlingAverage \in 200 .. 350
    /\ playerRole = "All-rounder" =>
         playerAnalysisData[1].careerStats.bowlingAverage \in 250 .. 400

C19_Witness ==
  /\ hasBowlingAverage
  /\ playerRole = "All-rounder"
  /\ playerAnalysisData[1].careerStats.bowlingAverage > 350

(***************************************************************************)
(* Claims about the form of the match predictor.                           *)
(***************************************************************************)
\* C20: a submit with Team A or Team B unselected sets the error 'Please
\* select both teams' and a submit with equal teams sets 'Please select
\* different teams'; in both cases no prediction is computed or requested,
\* loading stays false and the prediction is left as it was.
C20_InvalidSubmitOnlySetsError ==
  [][ (handlePredict /\ (formData.teamA = "" \/ formData.teamB = formData.teamA
                           \/ formData.teamB = ""))
        => /\ error' = IF formData.teamA = "" \/ formData.teamB = ""
                       THEN <<"Please select both teams">>
                       ELSE <<"Please select different teams">>
           /\ loading = FALSE /\ loading' = FALSE
           /\ prediction' = prediction
           /\ pc' = "idle" /\ req' = Null
           /\ formData' = formData ]_vars

\* Equal teams were submitted while the prediction of an earlier submit was
\* displayed: the error is set and the prediction is still there.
C20_Witness ==
  /\ error = <<"Please select different teams">>
  /\ prediction # Null
  /\ formData.teamA = formData.teamB
  /\ formData.teamA # ""
  /\ loading = FALSE

(***************************************************************************)
(* Claims about the recent form and its analysis.                          *)
(***************************************************************************)
\* The records of rest that are among the n of list with the highest match
\* numbers, in list order.
RECURSIVE KeepLatest(_, _, _)
KeepLatest(list, rest, n) ==
  IF rest = <<>> THEN <<>>
  ELSE LET newer == Cardinality({ j \in DOMAIN list :
                                    list[j].matchNumber > Head(rest).matchNumber })
       IN IF newer < n THEN <<Head(rest)>> \o KeepLatest(list, Tail(rest), n)
          ELSE KeepLatest(list, Tail(rest), n)

LatestOf(list, n) == KeepLatest(list, list, n)

\* C21: the form analysis shown as the player's current form is computed
\* from the five most recent matches of the ten-match recent-form list, the
\* five records with the highest match numbers and latest dates.
C21_AnalysisOfLatestFive ==
  generated =>
    /\ \A i \in 1 .. 5 :
         /\ LatestOf(playerAnalysisData[1].recentForm, 5)[i].matchNumber > 5
         /\ \A j \in DOMAIN playerAnalysisData[1].recentForm :
              playerAnalysisData[1].recentForm[j].matchNumber <= 5 =>
                playerAnalysisData[1].recentForm[j].daysAgo
                  > LatestOf(playerAnalysisData[1].recentForm, 5)[i].daysAgo
    /\ playerAnalysisData[1].recentFormAnalysis =
         analyzeRecentForm(Some(LatestOf(playerAnalysisData[1].recentForm, 5)),
                           playerRole).value

\* C22: for a non-empty match list with fewer than 5 records the averages
\* are taken over the records considered: avgRuns, avgSR and avgEconomy are
\* the sum over the considered records divided by their number.  (The
\* averages of the analysis are in fifths and fiftieths: a / 5 = sum / n is
\* a * n = 5 * sum.)
C22_AveragesOverConsidered ==
  (analysed /\ nonEmptyList /\ Len(considered) < 5) =>
    IF formRole = "Bowler"
    THEN avgEconomy(considered) * Len(considered)
           = 5 * SumSeq([ i \in DOMAIN considered |-> economyOrDefault(considered[i]) ])
    ELSE /\ avgRuns(considered) * Len(considered) = 5 * claimedRuns
         /\ avgSR(considered) * Len(considered) = 5 * claimedStrikeRate

\* C26: for a player whose role is Bowler, whatever the name, the recent-form
\* analysis of generatePlayerStats has the streak steady and the
\* momentumScore 40: the generated records have no economy and no wickets.
C26_BowlerSteadyAtForty ==
  (generated /\ playerRole = "Bowler") =>
    /\ \A i \in DOMAIN playerAnalysisData[1].recentForm :
         {"economy", "wickets"} \cap DOMAIN playerAnalysisData[1].recentForm[i] = {}
    /\ playerAnalysisData[1].recentFormAnalysis # Null
    /\ playerAnalysisData[1].recentFormAnalysis[1].streak = "steady"
    /\ playerAnalysisData[1].recentFormAnalysis[1].momentumScore = 40000

C26_Witness ==
  /\ generated
  /\ playerRole = "Bowler"
  /\ playerName = <<86, 105, 114, 97, 116, 32, 75, 111, 104, 108, 105>>
  /\ playerAnalysisData[1].recentFormAnalysis[1].momentumScore = 40000

\* C27: in every generated match record the result is Won exactly when the
\* format is not ODI, and Tied exactly when the sub-seed is divisible by 15,
\* so an ODI record is Lost or Tied and a T20I or Test record is Won.
C27_ResultFollowsFormat ==
  recentForm # Null =>
    \A i \in 0 .. 9 :
      LET m == recentForm[1][i + 1]
      IN /\ m.result = "Won" <=> m.format # "ODI"
         /\ m.result = "Tied" <=> subSeed(i) % 15 = 0
         /\ m.format = "ODI" => m.result \in {"Lost", "Tied"}
         /\ m.format \in {"T20I", "Test"} => m.result = "Won"
         /\ m.format \in {"ODI", "T20I", "Test"}

\* A generated list with a tied ODI match and a won Test match (the seeds of
\* a list agree modulo 5, so a list has tied matches or lost ones, not both).
C27_Witness ==
  /\ recentForm # Null
  /\ \E i \in 1 .. 10 : recentForm[1][i].result = "Tied" /\ recentForm[1][i].format = "ODI"
  /\ \E i \in 1 .. 10 : recentForm[1][i].result = "Won" /\ recentForm[1][i].format = "Test"

\* C28: in every generated match record the runs scored in boundaries do not
\* exceed the runs: 4 * fours + 6 * sixes <= runs, with balls >= 20,
\* fours >= 0 and sixes >= 0.
C28_BoundaryRunsWithinRuns ==
  recentForm # Null =>
    \A i \in 1 .. Len(recentForm[1]) :
      LET m == recentForm[1][i]
      IN /\ (4 * m.fours) + (6 * m.sixes) <= m.runs
         /\ m.balls >= 20
         /\ m.fours >= 0
         /\ m.sixes >= 0

\* balls, fours and sixes have their lower bounds in every record.
C28_LowerBounds ==
  recentForm # Null =>
    \A i \in 1 .. Len(recentForm[1]) :
      /\ recentForm[1][i].balls >= 20
      /\ recentForm[1][i].fours >= 0
      /\ recentForm[1][i].sixes >= 0

\* C29: for every name and each of the 10 generated matches runs is at most
\* 98, so the milestone Century is never produced: a milestone is Fifty or
\* null.
C29_NoCentury ==
  recentForm # Null =>
    \A i \in 1 .. Len(recentForm[1]) :
      /\ recentForm[1][i].runs <= 98
      /\ recentForm[1][i].milestone \in {Null, <<"Fifty">>}

\* An aggressive player's list with the largest runs, 89, and a fifty.
C29_Witness ==
  /\ recentForm # Null
  /\ seed % 3 = 0
  /\ \E i \in 1 .. 10 :
       /\ recentForm[1][i].runs = 89
       /\ recentForm[1][i].milestone = <<"Fifty">>

\* C30: for every role, Bowler included, the situational statistics define
\* the fields the Situational Analysis card reads whatever the role:
\* successRate, average and strikeRate of chasing and of defending.
C30_SituationalFieldsDefined ==
  generated =>
    /\ {"successRate", "average", "strikeRate"}
         \subseteq DOMAIN playerAnalysisData[1].situationalStats.chasing
    /\ {"successRate", "average", "strikeRate"}
         \subseteq DOMAIN playerAnalysisData[1].situationalStats.defending

(***************************************************************************)
(* C23: whenever a prediction is displayed, it was computed from the form  *)
(* values currently shown: the two selected teams are found and differ,    *)
(* and the prediction is the one the handler builds from the current form  *)
(* for some random draw.                                                   *)
(***************************************************************************)
C23_PredictionMatchesForm ==
  prediction # Null =>
    /\ FindTeam(formData.teamA) # Null
    /\ FindTeam(formData.teamB) # Null
    /\ formData.teamA # formData.teamB
    /\ \E k \in Draws :
         prediction[1] = makePrediction(formData, FindTeam(formData.teamA)[1],
                                        FindTeam(formData.teamB)[1], k)

(***************************************************************************)
(* C24: a submit that passes validation sets loading to true; loading      *)
(* then eventually returns to false, whether the request succeeds or is    *)
(* rejected; and in the step in which loading returns to false either a    *)
(* prediction or an error message is set.                                  *)
(***************************************************************************)
validSubmit ==
  /\ requestPrediction
  /\ formData.teamA # ""
  /\ formData.teamB # ""
  /\ formData.teamA # formData.teamB

validSimulatedSubmit ==
  /\ handlePredict
  /\ formData.teamA # ""
  /\ formData.teamB # ""
  /\ formData.teamA # formData.teamB

C24_SimulatedRequestReleased ==
  /\ [][validSimulatedSubmit => (loading' /\ error' = Null)]_vars
  /\ [][(loading /\ ~loading') => (prediction' # Null \/ error' # Null)]_vars
  /\ (loading ~> ~loading)

(***************************************************************************)
(* C25: once loading the teams and venues has failed or has returned no    *)
(* teams, the loading state is left, the built-in sample teams and venues  *)
(* are used, and every sample team is offered in the Team A selector and,  *)
(* unless selected as Team A, in the Team B selector.                      *)
(***************************************************************************)
loadFailedOrEmpty == ~realData.loading /\ realData.teams = <<>>

C25_SampleTeamsOffered ==
  (realData.error # Null \/ loadFailedOrEmpty) =>
    /\ ~realData.loading
    /\ loadedOrSampleTeams(realData) = sampleTeams
    /\ realData.venues = <<>> => loadedOrMockVenues(realData) = generateMockVenues
    /\ \A i \in DOMAIN sampleTeams :
         /\ sampleTeams[i].name \in teamAOptions(realData)
         /\ sampleTeams[i].name # formData.teamA
              => sampleTeams[i].name \in teamBOptions(realData, formData)

\* The part of C25 that holds: the loading state is left and the sample
\* teams and venues are the ones in use.
C25_FallsBackToSamples ==
  (realData.error # Null \/ loadFailedOrEmpty) =>
    /\ ~realData.loading
    /\ loadedOrSampleTeams(realData) = sampleTeams
    /\ realData.venues = <<>> => loadedOrMockVenues(realData) = generateMockVenues

\* After a failed or empty load no team is ever selected and no request sent.
C25_NothingSelectable ==
  loadFailedOrEmpty =>
    /\ teamAOptions(realData) = {""}
    /\ formData.teamA = "" /\ formData.teamB = ""
    /\ pc = "idle" /\ prediction = Null


====
